---- MODULE Spec2Model ----
(***************************************************************************)
(* Model of the AI news aggregator's item pipeline (utils/filters.py,      *)
(* utils/config.py): deduplication, keyword matching, relevance scoring.   *)
(* Texts are sequences of one-character strings, so that lower(), strip()  *)
(* and the substring test `in` are computed character by character.        *)
(***************************************************************************)
EXTENDS Integers, Sequences, FiniteSets, TLC

\* ------------------------------------------------------------------------
\* Bounds of the model
\* ------------------------------------------------------------------------
\* longest batch handed to remove_duplicates
MaxBatch == 3
\* number of successive remove_duplicates calls (the second one re-runs it
\* on the output of the first)
MaxCalls == 2
\* number of parts a text handed to the keyword matcher is made of
MaxTextParts == 2
\* longest keywords list handed to the scorer
MaxKeywords == 5

\* ------------------------------------------------------------------------
\* Python str operations, on sequences of characters
\* ------------------------------------------------------------------------
UpperLetters ==
  << "A","B","C","D","E","F","G","H","I","J","K","L","M",
     "N","O","P","Q","R","S","T","U","V","W","X","Y","Z" >>

LowerLetters ==
  << "a","b","c","d","e","f","g","h","i","j","k","l","m",
     "n","o","p","q","r","s","t","u","v","w","x","y","z" >>

\* the Cyrillic letters, each named by its code point
CyrillicUpper ==
  << "U+0410", "U+0411", "U+0412", "U+0413", "U+0414", "U+0415", "U+0416",
     "U+0417", "U+0418", "U+0419", "U+041A", "U+041B", "U+041C", "U+041D",
     "U+041E", "U+041F", "U+0420", "U+0421", "U+0422", "U+0423", "U+0424",
     "U+0425", "U+0426", "U+0427", "U+0428", "U+0429", "U+042A", "U+042B",
     "U+042C", "U+042D", "U+042E", "U+042F", "U+0401" >>

CyrillicLower ==
  << "U+0430", "U+0431", "U+0432", "U+0433", "U+0434", "U+0435", "U+0436",
     "U+0437", "U+0438", "U+0439", "U+043A", "U+043B", "U+043C", "U+043D",
     "U+043E", "U+043F", "U+0440", "U+0441", "U+0442", "U+0443", "U+0444",
     "U+0445", "U+0446", "U+0447", "U+0448", "U+0449", "U+044A", "U+044B",
     "U+044C", "U+044D", "U+044E", "U+044F", "U+0451" >>

\* the lower-case letter of each upper-case letter
LowerOf ==
  [c \in {UpperLetters[i] : i \in 1..Len(UpperLetters)}
          \cup {CyrillicUpper[i] : i \in 1..Len(CyrillicUpper)} |->
     IF \E i \in 1..Len(UpperLetters) : UpperLetters[i] = c
     THEN LowerLetters[CHOOSE i \in 1..Len(UpperLetters) : UpperLetters[i] = c]
     ELSE CyrillicLower[CHOOSE i \in 1..Len(CyrillicUpper) :
                          CyrillicUpper[i] = c]]

\* str.lower() of one character
LowerChar(c) == IF c \in DOMAIN LowerOf THEN LowerOf[c] ELSE c

\* str.lower()
lower(s) == [i \in 1..Len(s) |-> LowerChar(s[i])]

\* the characters str.strip() removes
IsSpace(c) == c \in {" ", "\t", "\n"}

\* str.strip(): drops leading and trailing whitespace
strip(s) ==
  LET idx == {i \in 1..Len(s) : ~IsSpace(s[i])}
  IN  IF idx = {} THEN << >>
      ELSE LET lo == CHOOSE i \in idx : \A j \in idx : i <= j
               hi == CHOOSE i \in idx : \A j \in idx : j <= i
           IN  SubSeq(s, lo, hi)

\* dict.get(key, default)
get(news, key, default) ==
  IF key \in DOMAIN news THEN news[key] ELSE default

\* str.__contains__: `sub in s`
contains(sub, s) ==
  \E i \in 0..(Len(s) - Len(sub)) : SubSeq(s, i + 1, i + Len(sub)) = sub

\* an optional argument: None, or a value
None == << >>
Some(x) == << x >>

\* Python truth value of an optional str or list: None and the empty
\* value are false
truthy(opt) == opt # None /\ opt[1] # << >>

Min(a, b) == IF a <= b THEN a ELSE b

\* ------------------------------------------------------------------------
\* Config.AI_KEYWORDS, Config.EXCLUDE_KEYWORDS
\* ------------------------------------------------------------------------
AI_KEYWORDS ==
  << <<"A","I"," ","n","e","w","s">>,
     <<"a","r","t","i","f","i","c","i","a","l"," ","i","n","t","e","l","l",
         "i","g","e","n","c","e">>,
     <<"C","h","a","t","G","P","T">>,
     <<"O","p","e","n","A","I">>,
     <<"C","l","a","u","d","e">>,
     <<"A","n","t","h","r","o","p","i","c">>,
     <<"G","e","m","i","n","i"," ","A","I">>,
     <<"D","e","e","p","M","i","n","d">>,
     <<"S","o","r","a">>,
     <<"S","t","a","b","l","e"," ","D","i","f","f","u","s","i","o","n">>,
     <<"M","i","d","j","o","u","r","n","e","y">>,
     <<"R","u","n","w","a","y"," ","A","I">>,
     <<"t","e","x","t","-","t","o","-","v","i","d","e","o">>,
     <<"t","e","x","t","-","t","o","-","i","m","a","g","e">>,
     <<"L","L","M">>,
     <<"A","I">>,
     <<"O","p","e","n","A","I">>,
     <<"A","n","t","h","r","o","p","i","c">>,
     <<"G","o","o","g","l","e">>,
     <<"D","e","e","p","M","i","n","d">>,
     <<"M","i","c","r","o","s","o","f","t">>,
     <<"M","e","t","a">>,
     <<"N","V","I","D","I","A">>,
     <<"A","d","o","b","e">>,
     <<"S","t","a","b","i","l","i","t","y"," ","A","I">>,
     <<"R","u","n","w","a","y">>,
     <<"J","a","s","p","e","r"," ","A","I">> >>

EXCLUDE_KEYWORDS ==
  << <<"p","a","p","e","r">>,
     <<"r","e","s","e","a","r","c","h"," ","p","a","p","e","r">>,
     <<"d","a","t","a","s","e","t">>,
     <<"l","o","s","s"," ","f","u","n","c","t","i","o","n">>,
     <<"t","r","a","i","n","i","n","g"," ","m","e","t","h","o","d">>,
     <<"b","a","c","k","p","r","o","p","a","g","a","t","i","o","n">>,
     <<"g","r","a","d","i","e","n","t"," ","d","e","s","c","e","n","t">>,
     <<"m","o","d","e","l"," ","w","e","i","g","h","t","s">>,
     <<"b","e","n","c","h","m","a","r","k">>,
     <<"a","r","x","i","v",".","o","r","g">> >>

\* ------------------------------------------------------------------------
\* NewsFilter.contains_ai_keywords, NewsFilter.extract_keywords_from_text
\* ------------------------------------------------------------------------
\* `keyword.lower() in text_lower`
keyword_in_text(keyword, text_lower) == contains(lower(keyword), text_lower)

\* any(keyword.lower() in text_lower for keyword in keywords)
any_keyword(keywords, text_lower) ==
  \E k \in 1..Len(keywords) : keyword_in_text(keywords[k], text_lower)

\* the return expression of contains_ai_keywords
veto_ignored(has_ai_keywords, has_exclude_keywords) == has_ai_keywords

veto(has_ai_keywords, has_exclude_keywords) ==
  has_ai_keywords /\ ~has_exclude_keywords

contains_ai_keywords(text) ==
  IF ~truthy(text) THEN FALSE
  ELSE LET text_lower == lower(text[1])
       IN  veto(any_keyword(AI_KEYWORDS, text_lower),
                any_keyword(EXCLUDE_KEYWORDS, text_lower))

\* the loop of extract_keywords_from_text, from the k-th configured keyword
RECURSIVE extract_loop(_, _, _)
extract_loop(k, text_lower, found_keywords) ==
  IF k > Len(AI_KEYWORDS) THEN found_keywords
  ELSE extract_loop(k + 1, text_lower,
         IF keyword_in_text(AI_KEYWORDS[k], text_lower)
         THEN Append(found_keywords, AI_KEYWORDS[k])
         ELSE found_keywords)

extract_keywords_from_text(text) ==
  IF ~truthy(text) THEN << >>
  ELSE extract_loop(1, lower(text[1]), << >>)

\* ------------------------------------------------------------------------
\* NewsFilter.calculate_relevance_score
\* ------------------------------------------------------------------------
high_priority ==
  << <<"c","h","a","t","g","p","t">>,
     <<"o","p","e","n","a","i">>,
     <<"c","l","a","u","d","e">>,
     <<"g","e","m","i","n","i">>,
     <<"s","o","r","a">>,
     <<"g","p","t","-","4">>,
     <<"g","p","t","-","5">> >>

medium_priority ==
  << <<"a","i">>,
     <<"a","r","t","i","f","i","c","i","a","l"," ","i","n","t","e","l","l",
         "i","g","e","n","c","e">>,
     <<"s","t","a","b","l","e"," ","d","i","f","f","u","s","i","o","n">>,
     <<"m","i","d","j","o","u","r","n","e","y">> >>

low_priority ==
  << <<"m","a","c","h","i","n","e"," ","l","e","a","r","n","i","n","g">>,
     <<"d","e","e","p"," ","l","e","a","r","n","i","n","g">>,
     <<"n","e","u","r","a","l"," ","n","e","t","w","o","r","k">> >>

\* text = f"{title} {description}".lower()
score_text_unseparated(title, description) == lower(title \o description)

score_text(title, description) == lower(title \o << " " >> \o description)

\* one `for keyword in tier: if keyword in text: score += weight` loop,
\* from the k-th keyword of the tier
RECURSIVE tier_loop(_, _, _, _, _)
tier_loop(score, tier, k, text, weight) ==
  IF k > Len(tier) THEN score
  ELSE tier_loop(IF contains(tier[k], text) THEN score + weight ELSE score,
                 tier, k + 1, text, weight)

add_tier_assign(score, tier, text, weight) ==
  IF \E k \in 1..Len(tier) : contains(tier[k], text) THEN weight ELSE score

add_tier(score, tier, text, weight) == tier_loop(score, tier, 1, text, weight)

\* if keywords: score += min(len(keywords) * 5, 20)
add_bonus(score, keywords) ==
  IF truthy(keywords) THEN score + Min(Len(keywords[1]) * 5, 20) ELSE score

\* return min(score, 100)
clamp_missing(score) == score

clamp(score) == Min(score, 100)

calculate_relevance_score(title, description, keywords) ==
  IF ~truthy(title) THEN 0
  ELSE LET text == score_text(title[1], description)
           s1   == add_tier(0, high_priority, text, 20)
           s2   == add_tier(s1, medium_priority, text, 10)
           s3   == add_tier(s2, low_priority, text, 5)
       IN  clamp(add_bonus(s3, keywords))

\* ------------------------------------------------------------------------
\* NewsFilter.remove_duplicates
\* ------------------------------------------------------------------------
\* the duplicate test of the loop body
is_unseen_either(title, url, titles, urls) ==
  title \notin titles \/ url \notin urls

is_unseen_nonempty_url(title, url, titles, urls) ==
  title \notin titles /\ (url = "" \/ url \notin urls)

is_unseen(title, url, titles, urls) ==
  title \notin titles /\ url \notin urls

\* what the loop body does with a kept item
keep_item_prepend(st, news, title, url, i) ==
  [ unique_news |-> << news >> \o st.unique_news,
    seen_titles |-> st.seen_titles \cup {title},
    seen_urls   |-> st.seen_urls \cup {url},
    kept_idx    |-> << i >> \o st.kept_idx ]

keep_item(st, news, title, url, i) ==
  [ unique_news |-> Append(st.unique_news, news),
    seen_titles |-> st.seen_titles \cup {title},
    seen_urls   |-> st.seen_urls \cup {url},
    kept_idx    |-> Append(st.kept_idx, i) ]

\* the dedup key of an item's title
title_key_raw(news) == get(news, "title", << >>)

title_key(news) == strip(lower(get(news, "title", << >>)))

\* one iteration of the loop over news_list
dedup_step_record_always(st, news, i) ==
  LET title == title_key(news)
      url   == get(news, "url", "")
  IN  IF is_unseen(title, url, st.seen_titles, st.seen_urls)
      THEN keep_item(st, news, title, url, i)
      ELSE [ st EXCEPT !.seen_titles = @ \cup {title},
                       !.seen_urls   = @ \cup {url} ]

dedup_step(st, news, i) ==
  LET title == title_key(news)
      url   == get(news, "url", "")
  IN  IF is_unseen(title, url, st.seen_titles, st.seen_urls)
      THEN keep_item(st, news, title, url, i)
      ELSE st

RECURSIVE dedup_loop(_, _, _)
dedup_loop(list, i, st) ==
  IF i > Len(list) THEN st
  ELSE dedup_loop(list, i + 1, dedup_step(st, list[i], i))

\* the whole function: locals at the return statement
remove_duplicates(list) ==
  dedup_loop(list, 1,
             [ unique_news |-> << >>, seen_titles |-> {},
               seen_urls |-> {}, kept_idx |-> << >> ])

\* ------------------------------------------------------------------------
\* Item batches
\* ------------------------------------------------------------------------
DedupTitles ==
  { << "A", "I" >>, << "a", "i" >>, << " ", "A", "i", " " >>,
    << "G", "P", "T" >> }

DedupUrls == { "", "https://a", "https://b" }

DedupItems ==
  { [title |-> t, url |-> u] : t \in DedupTitles, u \in DedupUrls }
  \cup { [title |-> t] : t \in DedupTitles }

Batches == UNION { [1..n -> DedupItems] : n \in 0..MaxBatch }

\* ------------------------------------------------------------------------
\* NewsFilter.is_english_or_russian
\* ------------------------------------------------------------------------
\* letters of other scripts (CJK, Arabic): word characters for `\w`
OtherLetters == { "U+65E5", "U+672C", "U+4E2D", "U+0639" }

Digits == { "0", "1", "2", "3", "4", "5", "6", "7", "8", "9" }

\* `\w` of a str pattern: letters of any script, digits, underscore
IsWordChar(c) ==
  \/ \E i \in 1..Len(UpperLetters) : c = UpperLetters[i] \/ c = LowerLetters[i]
  \/ \E i \in 1..Len(CyrillicUpper) :
       c = CyrillicUpper[i] \/ c = CyrillicLower[i]
  \/ c \in OtherLetters
  \/ c \in Digits
  \/ c = "_"

\* the characters the unwanted-character class lists next to \w and \s
\* (the backquote is named by its code point)
AllowedPunctuation ==
  { "-", ".", ",", "!", "?", "(", ")", "[", "]", "\"", ":", ";", "@", "#",
    "$", "%", "^", "&", "*", "+", "=", "<", ">", "/", "\\", "|", "U+0060", "~" }

\* a match of the negated class: no word character, no whitespace, none
\* of the listed punctuation marks
IsUnwanted(c) ==
  ~IsWordChar(c) /\ ~IsSpace(c) /\ c \notin AllowedPunctuation

\* the classes counted with len(re.findall(...))
IsCyrillicLower(c) == \E i \in 1..Len(CyrillicLower) : c = CyrillicLower[i]
IsLatinLower(c) == \E i \in 1..Len(LowerLetters) : c = LowerLetters[i]

\* `count / total_letters > 0.8`
dominates_or_equals(count, total_letters) == 5 * count >= 4 * total_letters

dominates(count, total_letters) == 5 * count > 4 * total_letters

is_english_or_russian(text) ==
  IF text = << >> THEN FALSE
  ELSE LET low            == lower(text)
           cyrillic_count ==
             Cardinality({i \in 1..Len(low) : IsCyrillicLower(low[i])})
           latin_count    ==
             Cardinality({i \in 1..Len(low) : IsLatinLower(low[i])})
           unwanted_chars ==
             Cardinality({i \in 1..Len(text) : IsUnwanted(text[i])})
           total_letters  == cyrillic_count + latin_count
       IN  IF total_letters = 0 THEN FALSE
           ELSE IF unwanted_chars > 0 THEN FALSE
           ELSE /\ total_letters >= 3
                /\ \/ dominates(cyrillic_count, total_letters)
                   \/ dominates(latin_count, total_letters)

\* ------------------------------------------------------------------------
\* NewsFilter.filter_news_by_relevance
\* ------------------------------------------------------------------------
\* news[relevance_score] = score
set_score_accumulating(news, score) ==
  [f \in DOMAIN news \cup {"relevance_score"} |->
     IF f = "relevance_score" THEN get(news, "relevance_score", 0) + score
     ELSE news[f]]

set_score(news, score) ==
  [f \in DOMAIN news \cup {"relevance_score"} |->
     IF f = "relevance_score" THEN score ELSE news[f]]

\* `if not self.is_english_or_russian(title): continue`
skip_item_never(title) == FALSE

skip_item(title) == ~is_english_or_russian(title)

\* `if score >= min_score`
passes_threshold_strict(score, min_score) == score > min_score

passes_threshold(score, min_score) == score >= min_score

\* the loop over news_list, from its i-th item
RECURSIVE filter_loop(_, _, _, _)
filter_loop(list, i, min_score, filtered_news) ==
  IF i > Len(list) THEN filtered_news
  ELSE LET news        == list[i]
           title       == get(news, "title", << >>)
           description == get(news, "description", << >>)
           keywords    == get(news, "keywords", << >>)
           score       == calculate_relevance_score(Some(title), description,
                                                    Some(keywords))
       IN  IF skip_item(title)
           THEN filter_loop(list, i + 1, min_score, filtered_news)
           ELSE IF passes_threshold(score, min_score)
           THEN filter_loop(list, i + 1, min_score,
                            Append(filtered_news, set_score(news, score)))
           ELSE filter_loop(list, i + 1, min_score, filtered_news)

\* list.sort(reverse=True) is stable and descending: an item goes behind
\* every item already placed whose key is not smaller
stays_ahead_strict(placed_key, key) == placed_key > key

stays_ahead(placed_key, key) == placed_key >= key

\* list.sort(key=relevance_score, reverse=True), from the i-th item of s
RECURSIVE sort_by_score(_, _, _)
sort_by_score(s, i, sorted) ==
  IF i > Len(s) THEN sorted
  ELSE LET key(x) == get(x, "relevance_score", 0)
           ahead  == {p \in 1..Len(sorted) :
                        stays_ahead(key(sorted[p]), key(s[i]))}
           n      == Cardinality(ahead)
       IN  sort_by_score(s, i + 1,
             SubSeq(sorted, 1, n) \o << s[i] >>
               \o SubSeq(sorted, n + 1, Len(sorted)))

filter_news_by_relevance(list, min_score) ==
  sort_by_score(filter_loop(list, 1, min_score, << >>), 1, << >>)

\* ------------------------------------------------------------------------
\* AINewsAggregator.process_news
\* ------------------------------------------------------------------------
\* a datetime: an instant, and whether the value carries a time zone
DateTime(aware, t) == [aware |-> aware, t |-> t]

\* datetime.min, which carries no time zone
datetime_min == DateTime(FALSE, 0)

\* `lambda x: x.get('published_date', datetime.min)`
date_key(x) == get(x, "published_date", datetime_min)

\* comparing a datetime that carries a time zone with one that does not
\* raises TypeError
comparable(a, b) == a.aware = b.aware

\* the sort compares keys of both kinds as soon as both occur in the list
sort_raises(s) ==
  \E i, j \in 1..Len(s) : ~comparable(date_key(s[i]), date_key(s[j]))

later_stays_ahead_strict(placed_key, key) == placed_key.t > key.t

later_stays_ahead(placed_key, key) == placed_key.t >= key.t

\* list.sort(key=published_date, reverse=True), from the i-th item of s
RECURSIVE sort_by_date(_, _, _)
sort_by_date(s, i, sorted) ==
  IF i > Len(s) THEN sorted
  ELSE LET ahead == {p \in 1..Len(sorted) :
                       later_stays_ahead(date_key(sorted[p]), date_key(s[i]))}
           n     == Cardinality(ahead)
       IN  sort_by_date(s, i + 1,
             SubSeq(sorted, 1, n) \o << s[i] >>
               \o SubSeq(sorted, n + 1, Len(sorted)))

\* `min_score=10` of process_news
PROCESS_MIN_SCORE == 10

\* The items are dict objects shared with the caller: the assignment
\* news[relevance_score] = score changes the item inside the list that was
\* passed in. The caller's list after filter_news_by_relevance, given the
\* positions `passed` of the items handed to the filter:
scored_in_place_all(list, passed, min_score) ==
  [p \in 1..Len(list) |->
     set_score(list[p],
               calculate_relevance_score(
                 Some(get(list[p], "title", << >>)),
                 get(list[p], "description", << >>),
                 Some(get(list[p], "keywords", << >>))))]

scored_in_place(list, passed, min_score) ==
  [p \in 1..Len(list) |->
     LET news  == list[p]
         title == get(news, "title", << >>)
         score == calculate_relevance_score(
                    Some(title), get(news, "description", << >>),
                    Some(get(news, "keywords", << >>)))
     IN  IF /\ p \in passed
            /\ ~skip_item(title)
            /\ passes_threshold(score, min_score)
         THEN set_score(news, score)
         ELSE news]

\* process_news: the list it returns, or the error it raises
process_news(list) ==
  LET unique   == remove_duplicates(list).unique_news
      relevant == filter_news_by_relevance(unique, PROCESS_MIN_SCORE)
  IN  IF sort_raises(relevant)
      THEN [outcome |-> "raised", error |-> "TypeError", news |-> << >>]
      ELSE [outcome |-> "returned", error |-> "",
            news |-> sort_by_date(relevant, 1, << >>)]

\* the caller's list after process_news: the items that survived the
\* deduplication and the filter carry their score
list_after_process_news(list) ==
  LET kept == remove_duplicates(list).kept_idx
  IN  scored_in_place(list, {kept[k] : k \in 1..Len(kept)},
                      PROCESS_MIN_SCORE)

\* ------------------------------------------------------------------------
\* NewsFilter.is_recent_news
\* ------------------------------------------------------------------------
\* timedelta(hours=hours), in seconds
SECONDS_PER_HOUR == 3600

timedelta(hours) == hours * SECONDS_PER_HOUR

\* `published_date.replace(tzinfo=timezone.utc)` for a date without zone
with_utc(published_date) ==
  IF published_date.aware THEN published_date
  ELSE DateTime(TRUE, published_date.t)

\* `published_date >= cutoff_time`
at_or_after_strict(published_date, cutoff_time) ==
  published_date.t > cutoff_time.t

at_or_after(published_date, cutoff_time) ==
  published_date.t >= cutoff_time.t

\* is_recent_news, with the reading `now` of the UTC clock
is_recent_news(published_date, hours, now) ==
  IF published_date = None THEN FALSE
  ELSE LET cutoff_time == DateTime(TRUE, now - timedelta(hours))
       IN  at_or_after(with_utc(published_date[1]), cutoff_time)

\* ------------------------------------------------------------------------
\* NewsFilter.format_news_for_telegram
\* ------------------------------------------------------------------------
\* the fixed text returned for an empty list (the same literal is sent by
\* run and by send_news_digest)
NO_NEWS_MESSAGE == [kind |-> "no_news"]

\* news_list[:max_items]; a negative max_items counts from the end
truncate_nothing(news_list, max_items) == news_list

truncate(news_list, max_items) ==
  IF max_items >= 0
  THEN SubSeq(news_list, 1, Min(max_items, Len(news_list)))
  ELSE SubSeq(news_list, 1, Len(news_list) + max_items)

\* defaults of the news.get calls
NO_TITLE == <<"U+0411","U+0435","U+0437"," ","U+0437","U+0430","U+0433",
    "U+043E","U+043B","U+043E","U+0432","U+043A","U+0430">>

NO_URL == "#"

UNKNOWN_SOURCE == <<"U+041D","U+0435","U+0438","U+0437","U+0432","U+0435",
    "U+0441","U+0442","U+043D","U+044B","U+0439"," ","U+0438","U+0441",
    "U+0442","U+043E","U+0447","U+043D","U+0438","U+043A">>

\* emoji_map.get(content_type, default), emoji named by code point
emoji_map(content_type) ==
  CASE content_type = "image" -> "U+1F5BC U+FE0F"
    [] content_type = "video" -> "U+1F3A5"
    [] content_type = "text"  -> "U+1F4DD"
    [] content_type = "link"  -> "U+1F517"
    [] OTHER                  -> "U+1F4C4"

content_emoji(source, content_type) ==
  IF contains(<<"R","e","d","d","i","t">>, source) /\ content_type # ""
  THEN emoji_map(content_type) ELSE ""

\* the duration suffix: << >> for none, << minutes, seconds >> for
\* ` (Xm Ys)` and << seconds >> for ` (Ys)`
duration_info_any_source(source, duration) ==
  IF duration > 0
  THEN LET minutes == duration \div 60
           seconds == duration % 60
       IN  IF minutes > 0 THEN << minutes, seconds >> ELSE << seconds >>
  ELSE << >>

duration_info(source, duration) ==
  IF contains(<<"Y","o","u","T","u","b","e">>, source) /\ duration > 0
  THEN LET minutes == duration \div 60
           seconds == duration % 60
       IN  IF minutes > 0 THEN << minutes, seconds >> ELSE << seconds >>
  ELSE << >>

\* the block of one item: emoji, link, duration suffix and source line
news_item(news) ==
  LET title        == get(news, "title", NO_TITLE)
      url          == get(news, "url", NO_URL)
      source       == get(news, "source", UNKNOWN_SOURCE)
      content_type == get(news, "content_type", "")
      duration     == get(news, "duration", 0)
  IN  [content_emoji |-> content_emoji(source, content_type),
       url |-> url, title |-> title,
       duration_info |-> duration_info(source, duration),
       source |-> source]

\* the digest text: header with the current date, then the blocks
format_news_for_telegram(news_list, max_items, current_date) ==
  IF news_list = << >> THEN NO_NEWS_MESSAGE
  ELSE LET shown == truncate(news_list, max_items)
       IN  [kind |-> "digest", current_date |-> current_date,
            news_items |-> [i \in 1..Len(shown) |-> news_item(shown[i])]]

\* ------------------------------------------------------------------------
\* TelegramSender, as far as the orchestrator uses it
\* ------------------------------------------------------------------------
\* send_message: the message is handed to the transport, which accepts it
\* (send_message returns True) or fails (it returns False)
send_message(outbox, message, ok) ==
  Append(outbox, [message |-> message, ok |-> ok])

\* the text send_error_message builds
error_text(error_message) ==
  [kind |-> "error", error_message |-> error_message]

\* the text send_summary builds: count, sources and the first 3 errors
summary_text(news_count, sources_used, errors) ==
  [kind |-> "summary", news_count |-> news_count,
   sources_used |-> sources_used,
   errors_count |-> Len(errors),
   errors |-> SubSeq(errors, 1, Min(3, Len(errors)))]

\* ------------------------------------------------------------------------
\* TelegramSender.send_message and _split_message
\* ------------------------------------------------------------------------
\* A message text is a sequence of pieces: a piece is the character c
\* repeated n times, or a fixed literal of n characters named by c.
\* Neighbouring pieces hold different characters.
Piece(c, n) == [c |-> c, n |-> n]

\* len(text)
RECURSIVE text_len(_)
text_len(t) == IF t = << >> THEN 0 ELSE t[1].n + text_len(Tail(t))

\* a + b
cat(a, b) ==
  IF a = << >> THEN b
  ELSE IF b = << >> THEN a
  ELSE IF a[Len(a)].c = b[1].c
  THEN SubSeq(a, 1, Len(a) - 1)
         \o << Piece(b[1].c, a[Len(a)].n + b[1].n) >> \o Tail(b)
  ELSE a \o b

NEWLINE == << Piece("\n", 1) >>

\* text.strip()
text_strip(t) ==
  LET idx == {i \in 1..Len(t) : ~IsSpace(t[i].c)}
  IN  IF idx = {} THEN << >>
      ELSE LET lo == CHOOSE i \in idx : \A j \in idx : i <= j
               hi == CHOOSE i \in idx : \A j \in idx : j <= i
           IN  SubSeq(t, lo, hi)

\* message.split(newline): n newlines in a row end the current line and
\* n - 1 empty lines
RECURSIVE split_lines(_, _, _)
split_lines(t, current, lines) ==
  IF t = << >> THEN Append(lines, current)
  ELSE IF t[1].c = "\n"
  THEN split_lines(Tail(t), << >>,
                   lines \o << current >> \o [i \in 1..(t[1].n - 1) |-> << >>])
  ELSE split_lines(Tail(t), Append(current, t[1]), lines)

\* `if current_part: parts.append(current_part.strip())`
flush_nothing(current_part, parts) == parts

flush(current_part, parts) ==
  IF current_part # << >> THEN Append(parts, text_strip(current_part))
  ELSE parts

\* the loop of _split_message, from the i-th line
RECURSIVE split_loop(_, _, _, _, _)
split_loop(lines, i, max_length, current_part, parts) ==
  IF i > Len(lines) THEN flush(current_part, parts)
  ELSE LET line == cat(lines[i], NEWLINE)
       IN  IF text_len(cat(current_part, line)) <= max_length
           THEN split_loop(lines, i + 1, max_length,
                           cat(current_part, line), parts)
           ELSE split_loop(lines, i + 1, max_length, line,
                           flush(current_part, parts))

split_message(message, max_length) ==
  split_loop(split_lines(message, << >>, << >>), 1, max_length, << >>, << >>)

\* `max_length = 3800` of send_message
MAX_LENGTH == 3800

\* number of characters of str(n)
decimal_len(n) == IF n < 10 THEN 1 ELSE IF n < 100 THEN 2 ELSE 3

\* two newlines and the 24 characters of the note that more follows
FOLLOWS_LABEL == << Piece("\n", 2), Piece("_continuation follows_", 24) >>

\* the 14 characters before the part number, the number, a slash, the
\* count, the 2 closing characters, and two newlines
continued_label(number, count) ==
  << Piece("_continuation (i/n)_",
           14 + decimal_len(number) + 1 + decimal_len(count) + 2),
     Piece("\n", 2) >>

\* the labels of the part with index i (from 0) of `count` parts
labelled(part, i, count) ==
  IF i = 0 THEN cat(part, FOLLOWS_LABEL)
  ELSE IF i = count - 1 THEN cat(continued_label(i + 1, count), part)
  ELSE cat(cat(continued_label(i + 1, count), part), FOLLOWS_LABEL)

\* the calls of bot.send_message, the fail_at-th of which raises: the
\* texts handed over, whether each was accepted, and what send_message
\* returns
transmit_ignoring_failure(texts, fail_at) ==
  [log |-> [i \in 1..Len(texts) |-> [text |-> texts[i], ok |-> i # fail_at]],
   result |-> TRUE]

transmit(texts, fail_at) ==
  IF fail_at \in 1..Len(texts)
  THEN [log |-> [i \in 1..fail_at |-> [text |-> texts[i], ok |-> i < fail_at]],
        result |-> FALSE]
  ELSE [log |-> [i \in 1..Len(texts) |-> [text |-> texts[i], ok |-> TRUE]],
        result |-> TRUE]

\* send_message(message) on a transport whose fail_at-th call raises
deliver(message, fail_at) ==
  IF text_len(message) <= MAX_LENGTH
  THEN transmit(<< message >>, fail_at)
  ELSE LET parts == split_message(message, MAX_LENGTH)
       IN  transmit([i \in 1..Len(parts) |->
                       labelled(parts[i], i - 1, Len(parts))], fail_at)

\* ------------------------------------------------------------------------
\* AINewsAggregator.collect_news
\* ------------------------------------------------------------------------
\* the sources in the order collect_news asks them
SOURCES == << "YouTube", "Twitter", "Google News", "Hacker News", "Reddit" >>

\* search_* of an adapter: the items it fetched; a fetch that fails inside
\* the adapter is caught there and the adapter returns []
search(outcome) ==
  IF outcome.kind = "items" THEN outcome.items ELSE << >>

\* the except branch of one source
record_failure_reset(acc, name, error) ==
  [acc EXCEPT !.errors = Append(@, [source |-> name, error |-> error]),
              !.all_news = << >>]

record_failure(acc, name, error) ==
  [acc EXCEPT !.errors = Append(@, [source |-> name, error |-> error])]

\* the try branch of one source
record_success(acc, name, found) ==
  [acc EXCEPT !.all_news = @ \o found,
              !.sources_used = Append(@, name)]

\* the five blocks of collect_news, from the i-th source
RECURSIVE collect_loop(_, _, _, _)
collect_loop(parsers, fetch, i, acc) ==
  IF i > Len(SOURCES) THEN acc
  ELSE LET name == SOURCES[i]
       IN  IF name \notin parsers
           THEN collect_loop(parsers, fetch, i + 1, acc)
           ELSE IF fetch[name].kind = "raised"
           THEN collect_loop(parsers, fetch, i + 1,
                             record_failure(acc, name, fetch[name].error))
           ELSE collect_loop(parsers, fetch, i + 1,
                             record_success(acc, name, search(fetch[name])))

collect_news(parsers, fetch) ==
  collect_loop(parsers, fetch, 1,
               [all_news |-> << >>, sources_used |-> << >>,
                errors |-> << >>])

\* `if not all_news` of run and `if not news_list` of send_news_digest
is_empty_never(list) == FALSE

is_empty(list) == list = << >>

\* the messages send_news_digest hands to the sender, with the transport
\* results ok_digest and ok_summary
send_news_digest_summary_on_success(outbox, news_list, sources_used, errors, current_date, ok_digest, ok_summary) ==
  IF is_empty(news_list)
  THEN send_message(outbox, NO_NEWS_MESSAGE, ok_digest)
  ELSE LET formatted_message ==
             format_news_for_telegram(news_list, Len(news_list),
                                      current_date)
           sent == send_message(outbox, formatted_message, ok_digest)
       IN  IF ok_digest
           THEN send_message(sent,
                             summary_text(Len(news_list), sources_used,
                                          errors),
                             ok_summary)
           ELSE sent

send_news_digest(outbox, news_list, sources_used, errors, current_date, ok_digest, ok_summary) ==
  IF is_empty(news_list)
  THEN send_message(outbox, NO_NEWS_MESSAGE, ok_digest)
  ELSE LET formatted_message ==
             format_news_for_telegram(news_list, Len(news_list),
                                      current_date)
       IN  send_message(
             send_message(outbox, formatted_message, ok_digest),
             summary_text(Len(news_list), sources_used, errors),
             ok_summary)

\* ------------------------------------------------------------------------
\* Inputs of the keyword matcher and of the scorer
\* ------------------------------------------------------------------------
KeywordTextParts ==
  { <<"O","p","e","n","A","I">>,
    <<" ","r","e","s","e","a","r","c","h"," ","p","a","p","e","r">>,
    <<" ","r","e","s","e","a","r","c","h"," ","p","a","p","e","r"," ","o","n",
        " ","g","r","a","d","i","e","n","t"," ","d","e","s","c","e","n","t">>,
    <<"c","h","a","t","g","p","t">>,
    <<"A","n","t","h","r","o","p","i","c"," ">>,
    <<"D","e","e","p","M","i","n","d">>,
    <<"n","e","w"," ","m","o","d","e","l">>,
    <<"P","a","p">>,
    <<"e","r">> }

\* texts of up to n parts
RECURSIVE TextsOf(_, _)
TextsOf(parts, n) ==
  IF n = 0 THEN { << >> }
  ELSE LET shorter == TextsOf(parts, n - 1)
       IN  shorter \cup { t \o p : t \in shorter, p \in parts }

KeywordTexts ==
  {None} \cup { Some(t) : t \in TextsOf(KeywordTextParts, MaxTextParts) }

ScoreTitles ==
  { None,
    Some(<< >>),
    Some(<<"C","h","a","t","G","P","T"," ","g","e","t","s"," ","n","e","w",
        " ","f","e","a","t","u","r","e">>),
    Some(<<"O","p","e","n","A","I"," ","S","o","r","a">>),
    Some(<<"O","p","e","n","A","I"," ","S","o","r","a"," ","C","l","a","u",
        "d","e">>),
    Some(<<"s","o","r","a"," ","a","r","t","i","f","i","c","i","a","l">>),
    Some(<<"D","e","e","p"," ","l","e","a","r","n","i","n","g"," ","A","I">>),
    Some(<<"W","e","a","t","h","e","r">>) }

ScoreDescriptions ==
  { << >>,
    <<"i","n","t","e","l","l","i","g","e","n","c","e">>,
    <<"G","e","m","i","n","i"," ","G","P","T","-","4">>,
    <<"s","t","a","b","l","e"," ","d","i","f","f","u","s","i","o","n">> }

KeywordArgs ==
  {None} \cup { Some(SubSeq(AI_KEYWORDS, 3, 2 + n)) : n \in 0..MaxKeywords }

MinScores == { -5, 0, 10, 30, 101 }

\* s with the keyword kw put in after its first pos characters
InsertAt(s, pos, kw) == SubSeq(s, 1, pos) \o kw \o SubSeq(s, pos + 1, Len(s))

\* the item the filter stage sees for the arguments of the scorer: an absent
\* argument is an absent key
ItemOf(t, d, k) ==
  LET fields == {"description"} \cup (IF t = None THEN {} ELSE {"title"})
                  \cup (IF k = None THEN {} ELSE {"keywords"})
  IN  [f \in fields |->
         IF f = "title" THEN t[1]
         ELSE IF f = "keywords" THEN k[1] ELSE d]

\* ------------------------------------------------------------------------
\* State
\* ------------------------------------------------------------------------
VARIABLES
  batch,         \* the collected batch, as the source adapters produced it
  news_list,     \* the batch handed to the last remove_duplicates call
  unique_news,   \* the list that call returned
  seen_titles,   \* its seen_titles set when it returned
  seen_urls,     \* its seen_urls set when it returned
  kept_idx,      \* positions of news_list whose item was appended
  calls,         \* number of remove_duplicates calls made so far
  text,          \* argument of the keyword matcher
  has_keywords,  \* what contains_ai_keywords returned, None before the call
  found_keywords,\* what extract_keywords_from_text returned, None before
  title,         \* arguments of calculate_relevance_score
  description,
  keywords,
  score,         \* what calculate_relevance_score returned, None before
  before,        \* title, description and score before a keyword was added
  min_score,     \* threshold of the filter stage
  filtered_news, \* what filter_news_by_relevance returned, None before
  processed_news,\* what process_news returned or raised, None before
  max_items,     \* argument of format_news_for_telegram
  formatted_message, \* what format_news_for_telegram returned, None before
  parsers,       \* names of the sources whose adapter is registered
  fetch,         \* how the call of each registered adapter ends
  pc,            \* position of run
  all_news,      \* what collect_news returned
  sources_used,
  errors,
  outbox,        \* messages handed to the sender, with the transport result
  published_date,\* arguments of is_recent_news, None for an absent date
  hours,
  now,           \* reading of the UTC clock, in seconds
  is_recent,     \* what is_recent_news returned, None before
  language_text, \* argument of is_english_or_russian
  language_ok,   \* what is_english_or_russian returned, None before
  message,       \* text given to send_message and to _split_message
  split_length,  \* max_length given to _split_message
  fail_at,       \* which call of the transport raises, 0 for none
  parts,         \* what _split_message returned, None before
  delivery,      \* calls made and value returned by send_message, None before
  original_batch,\* batch as it was before the first call
  outputs        \* what the successive calls on batch returned or raised

dedup_vars ==
  << batch, news_list, unique_news, seen_titles, seen_urls, kept_idx, calls >>
keyword_vars == << text, has_keywords, found_keywords >>
score_vars ==
  << title, description, keywords, score, before, min_score, filtered_news >>

format_vars == << max_items, formatted_message >>
run_vars == << parsers, fetch, pc, all_news, sources_used, errors, outbox >>
pipeline_vars == << processed_news, format_vars, run_vars >>

recency_vars == << published_date, hours, now, is_recent >>
language_vars == << language_text, language_ok >>
sender_vars == << message, split_length, fail_at, parts, delivery >>
repeat_vars == << original_batch, outputs >>
util_vars == << recency_vars, language_vars, sender_vars, repeat_vars >>

vars == << dedup_vars, keyword_vars, score_vars, pipeline_vars, util_vars >>

\* the parts of the state a specification does not use
DedupIdle ==
  /\ batch = << >>
  /\ news_list = << >>
  /\ unique_news = << >>
  /\ seen_titles = {}
  /\ seen_urls = {}
  /\ kept_idx = << >>
  /\ calls = 0

FormatIdle ==
  /\ max_items = 0
  /\ formatted_message = None

RunIdle ==
  /\ parsers = {}
  /\ fetch = << >>
  /\ pc = "idle"
  /\ all_news = << >>
  /\ sources_used = << >>
  /\ errors = << >>
  /\ outbox = << >>

PipelineIdle ==
  /\ processed_news = None
  /\ FormatIdle
  /\ RunIdle

RecencyIdle ==
  /\ published_date = None
  /\ hours = 0
  /\ now = 0
  /\ is_recent = None

LanguageIdle ==
  /\ language_text = << >>
  /\ language_ok = None

SenderIdle ==
  /\ message = << >>
  /\ split_length = 0
  /\ fail_at = 0
  /\ parts = None
  /\ delivery = None

RepeatIdle ==
  /\ original_batch = << >>
  /\ outputs = << >>

UtilIdle ==
  /\ RecencyIdle
  /\ LanguageIdle
  /\ SenderIdle
  /\ RepeatIdle

KeywordIdle ==
  /\ text = None
  /\ has_keywords = None
  /\ found_keywords = None

ScoreIdle ==
  /\ title = None
  /\ description = << >>
  /\ keywords = None
  /\ score = None
  /\ before = None
  /\ min_score = 0
  /\ filtered_news = None

\* ------------------------------------------------------------------------
\* Specification of the deduplicator
\* ------------------------------------------------------------------------
InitDedup ==
  /\ batch \in Batches
  /\ news_list = << >>
  /\ unique_news = << >>
  /\ seen_titles = {}
  /\ seen_urls = {}
  /\ kept_idx = << >>
  /\ calls = 0
  /\ KeywordIdle
  /\ UtilIdle
  /\ ScoreIdle
  /\ PipelineIdle

\* a call of remove_duplicates: the first on the batch, a later one on the
\* list the previous call returned
RemoveDuplicates ==
  /\ calls < MaxCalls
  /\ LET input == IF calls = 0 THEN batch ELSE unique_news
         r     == remove_duplicates(input)
     IN  /\ news_list' = input
         /\ unique_news' = r.unique_news
         /\ seen_titles' = r.seen_titles
         /\ seen_urls' = r.seen_urls
         /\ kept_idx' = r.kept_idx
  /\ calls' = calls + 1
  /\ UNCHANGED << batch, keyword_vars,
                  util_vars, score_vars, pipeline_vars >>

NextDedup == RemoveDuplicates

SpecDedup == InitDedup /\ [][NextDedup]_vars

\* ------------------------------------------------------------------------
\* Specification of the keyword matcher
\* ------------------------------------------------------------------------
InitKeywords ==
  /\ text \in KeywordTexts
  /\ has_keywords = None
  /\ found_keywords = None
  /\ DedupIdle
  /\ ScoreIdle
  /\ PipelineIdle
  /\ UtilIdle

ContainsAiKeywords ==
  /\ has_keywords = None
  /\ has_keywords' = Some(contains_ai_keywords(text))
  /\ UNCHANGED << text, found_keywords, dedup_vars, score_vars,
                  pipeline_vars, util_vars >>

ExtractKeywordsFromText ==
  /\ found_keywords = None
  /\ found_keywords' = Some(extract_keywords_from_text(text))
  /\ UNCHANGED << text, has_keywords, dedup_vars, score_vars,
                  pipeline_vars, util_vars >>

NextKeywords == ContainsAiKeywords \/ ExtractKeywordsFromText

SpecKeywords == InitKeywords /\ [][NextKeywords]_vars

\* ------------------------------------------------------------------------
\* Specification of the scorer and of the filter stage that stores scores
\* ------------------------------------------------------------------------
InitScore ==
  /\ title \in ScoreTitles
  /\ description \in ScoreDescriptions
  /\ keywords \in KeywordArgs
  /\ score = None
  /\ before = None
  /\ min_score = 0
  /\ filtered_news = None
  /\ DedupIdle
  /\ KeywordIdle
  /\ UtilIdle
  /\ PipelineIdle

CalculateRelevanceScore ==
  /\ score = None
  /\ score' = Some(calculate_relevance_score(title, description, keywords))
  /\ UNCHANGED << title, description, keywords, before, min_score,
                  filtered_news, dedup_vars, keyword_vars,
                  util_vars, pipeline_vars >>

\* after a first scoring, an occurrence of a high-priority keyword is put
\* into the title or the description, which is then scored again
AddHighPriorityOccurrence ==
  /\ score # None
  /\ before = None
  /\ filtered_news = None
  /\ title # None
  /\ \E k \in 1..Len(high_priority) :
       \/ \E pos \in 0..Len(title[1]) :
            /\ title' = Some(InsertAt(title[1], pos, high_priority[k]))
            /\ UNCHANGED description
       \/ \E pos \in 0..Len(description) :
            /\ description' = InsertAt(description, pos, high_priority[k])
            /\ UNCHANGED title
  /\ before' = Some([title |-> title[1], description |-> description,
                     score |-> score[1]])
  /\ score' = None
  /\ UNCHANGED << keywords, min_score, filtered_news, dedup_vars,
                  keyword_vars,
                  util_vars, pipeline_vars >>

\* the filter stage run on the item as a one-item batch
FilterNewsByRelevance ==
  /\ filtered_news = None
  /\ before = None
  /\ \E m \in MinScores :
       /\ min_score' = m
       /\ filtered_news' =
            Some(filter_news_by_relevance(
                   << ItemOf(title, description, keywords) >>, m))
  /\ UNCHANGED << title, description, keywords, score, before, dedup_vars,
                  keyword_vars,
                  util_vars, pipeline_vars >>

NextScore ==
  \/ CalculateRelevanceScore
  \/ AddHighPriorityOccurrence
  \/ FilterNewsByRelevance

SpecScore == InitScore /\ [][NextScore]_vars

\* ------------------------------------------------------------------------
\* Specification of the filter stage on a batch
\* ------------------------------------------------------------------------
\* items as the source adapters build them; U+1F916 is an emoji, which
\* the language filter counts as an unwanted character
FilterItems ==
  { [title |-> <<"O","p","e","n","A","I"," ","S","o","r","a">>,
       url |-> "https://a"],
    [title |-> <<"G","e","m","i","n","i"," ","C","l","a","u","d","e"," ","A",
        "I">>, url |-> "https://b"],
    [title |-> <<"C","h","a","t","G","P","T"," ","n","e","w","s">>,
         url |-> "https://c",
     keywords |-> << <<"C","h","a","t","G","P","T">> >>],
    [title |-> <<"W","e","a","t","h","e","r"," ","r","e","p","o","r","t">>,
         url |-> "https://d",
     description |-> <<"d","e","e","p"," ","l","e","a","r","n","i","n","g">>],
    [title |-> <<"W","e","a","t","h","e","r"," ","r","e","p","o","r","t">>,
         url |-> "https://e"],
    [title |-> << "C","l","a","u","d","e"," ","U+1F916" >>,
     url |-> "https://f"],
    [title |-> <<"A","I">>, url |-> "https://g"],
    [title |-> << >>, url |-> "https://h", description |-> <<"O","p","e","n",
        "A","I">>],
    [url |-> "https://i", description |-> <<"O","p","e","n","A","I">>] }

FilterBatches == UNION { [1..n -> FilterItems] : n \in 0..MaxBatch }

InitFilter ==
  /\ batch \in FilterBatches
  /\ min_score \in MinScores
  /\ filtered_news = None
  /\ news_list = << >>
  /\ unique_news = << >>
  /\ seen_titles = {}
  /\ seen_urls = {}
  /\ kept_idx = << >>
  /\ calls = 0
  /\ title = None
  /\ description = << >>
  /\ keywords = None
  /\ score = None
  /\ before = None
  /\ KeywordIdle
  /\ UtilIdle
  /\ PipelineIdle

\* filter_news_by_relevance(batch, min_score)
FilterBatchByRelevance ==
  /\ filtered_news = None
  /\ filtered_news' = Some(filter_news_by_relevance(batch, min_score))
  /\ UNCHANGED << dedup_vars, keyword_vars,
                  util_vars, title, description, keywords,
                  score, before, min_score, pipeline_vars >>

NextFilter == FilterBatchByRelevance

SpecFilter == InitFilter /\ [][NextFilter]_vars

\* ------------------------------------------------------------------------
\* Specification of process_news on a batch
\* ------------------------------------------------------------------------
\* items with the dates the adapters attach (with a time zone), one with a
\* date without time zone and one without the published_date key
ProcessItems ==
  { [title |-> <<"O","p","e","n","A","I"," ","S","o","r","a">>,
       url |-> "https://a",
     published_date |-> DateTime(TRUE, 2)],
    [title |-> <<"C","h","a","t","G","P","T"," ","n","e","w","s">>,
         url |-> "https://b",
     published_date |-> DateTime(TRUE, 2)],
    [title |-> <<"G","e","m","i","n","i"," ","C","l","a","u","d","e"," ","A",
        "I">>, url |-> "https://c",
     published_date |-> DateTime(TRUE, 1)],
    [title |-> <<"S","o","r","a"," ","d","e","m","o">>, url |-> "https://d",
     published_date |-> DateTime(TRUE, 1)],
    [title |-> <<"O","p","e","n","A","I"," ","S","o","r","a">>,
         url |-> "https://e",
     published_date |-> DateTime(TRUE, 1)],
    [title |-> <<"C","l","a","u","d","e"," ","u","p","d","a","t","e">>,
         url |-> "https://f"],
    [title |-> <<"C","h","a","t","G","P","T"," ","n","e","w","s">>,
         url |-> "https://g",
     published_date |-> DateTime(FALSE, 1)],
    [title |-> <<"W","e","a","t","h","e","r"," ","r","e","p","o","r","t">>,
         url |-> "https://h",
     published_date |-> DateTime(TRUE, 2)] }

ProcessBatches == UNION { [1..n -> ProcessItems] : n \in 0..MaxBatch }

InitProcess ==
  /\ batch \in ProcessBatches
  /\ news_list = << >>
  /\ unique_news = << >>
  /\ seen_titles = {}
  /\ seen_urls = {}
  /\ kept_idx = << >>
  /\ calls = 0
  /\ processed_news = None
  /\ KeywordIdle
  /\ UtilIdle
  /\ ScoreIdle
  /\ FormatIdle
  /\ RunIdle

\* process_news(batch)
ProcessNews ==
  /\ processed_news = None
  /\ processed_news' = Some(process_news(batch))
  /\ UNCHANGED << dedup_vars, keyword_vars,
                  util_vars, score_vars, format_vars,
                  run_vars >>

NextProcess == ProcessNews

SpecProcess == InitProcess /\ [][NextProcess]_vars

\* ------------------------------------------------------------------------
\* Specification of the digest formatter
\* ------------------------------------------------------------------------
\* items with the fields the formatter reads: durations of YouTube videos,
\* content types of Reddit posts, and an item with none of the fields
FormatItems ==
  { [title |-> <<"O","p","e","n","A","I"," ","S","o","r","a">>,
       url |-> "https://y1",
     source |-> <<"Y","o","u","T","u","b","e">>, duration |-> 125],
    [title |-> <<"S","o","r","a"," ","d","e","m","o">>, url |-> "https://y2",
     source |-> <<"Y","o","u","T","u","b","e">>, duration |-> 45],
    [title |-> <<"C","l","a","u","d","e"," ","u","p","d","a","t","e">>,
         url |-> "https://y3",
     source |-> <<"Y","o","u","T","u","b","e"," ","(","T","r","e","n","d","i",
         "n","g",")">>],
    [title |-> <<"C","h","a","t","G","P","T"," ","n","e","w","s">>,
         url |-> "https://r1",
     source |-> <<"R","e","d","d","i","t"," ","r","/","O","p","e","n","A",
         "I">>, content_type |-> "image"],
    [title |-> <<"G","e","m","i","n","i"," ","C","l","a","u","d","e"," ","A",
        "I">>, url |-> "https://r2",
     source |-> <<"R","e","d","d","i","t"," ","r","/","C","h","a","t","G","P",
         "T">>, content_type |-> "poll"],
    [title |-> <<"D","e","e","p"," ","l","e","a","r","n","i","n","g"," ","A",
        "I">>, url |-> "https://h1",
     source |-> <<"H","a","c","k","e","r"," ","N","e","w","s">>,
          duration |-> 60],
    [title |-> <<"O","p","e","n","A","I"," ","S","o","r","a">>,
       url |-> "https://y4",
     source |-> <<"Y","o","u","T","u","b","e">>, duration |-> 60],
    [title |-> <<"S","o","r","a"," ","d","e","m","o">>, url |-> "https://y5",
     source |-> <<"Y","o","u","T","u","b","e">>, duration |-> 3725],
    [description |-> <<"O","p","e","n","A","I">>] }

FormatBatches == UNION { [1..n -> FormatItems] : n \in 0..MaxBatch }

\* `max_items: int = 20`
DEFAULT_MAX_ITEMS == 20

\* item counts asked for: none, fewer than, as many as and more than the
\* batch holds
MaxItemsValues == 0..(MaxBatch + 1) \cup {DEFAULT_MAX_ITEMS}

\* readings of the clock, as strftime renders them
CurrentDates == {"01 November 2026", "02 November 2026"}

InitFormat ==
  /\ batch \in FormatBatches
  /\ max_items \in MaxItemsValues
  /\ formatted_message = None
  /\ news_list = << >>
  /\ unique_news = << >>
  /\ seen_titles = {}
  /\ seen_urls = {}
  /\ kept_idx = << >>
  /\ calls = 0
  /\ processed_news = None
  /\ KeywordIdle
  /\ UtilIdle
  /\ ScoreIdle
  /\ RunIdle

\* format_news_for_telegram(batch, max_items)
FormatNewsForTelegram ==
  /\ formatted_message = None
  /\ \E current_date \in CurrentDates :
       formatted_message' =
         Some(format_news_for_telegram(batch, max_items, current_date))
  /\ UNCHANGED << dedup_vars, keyword_vars,
                  util_vars, score_vars, processed_news,
                  max_items, run_vars >>

NextFormat == FormatNewsForTelegram

SpecFormat == InitFormat /\ [][NextFormat]_vars

\* ------------------------------------------------------------------------
\* Specification of a run of the aggregator
\* ------------------------------------------------------------------------
\* what each adapter finds when its fetch succeeds; the adapters attach
\* dates with a time zone
SourceStories(name) ==
  CASE name = "YouTube" ->
         << [title |-> <<"O","p","e","n","A","I"," ","S","o","r","a">>,
              url |-> "https://y1",
             source |-> <<"Y","o","u","T","u","b","e">>, duration |-> 125,
             published_date |-> DateTime(TRUE, 2)] >>
    [] name = "Twitter" ->
         << [title |-> <<"C","h","a","t","G","P","T"," ","n","e","w","s">>,
              url |-> "https://t1",
             source |-> <<"T","w","i","t","t","e","r","/","X">>,
             published_date |-> DateTime(TRUE, 1)] >>
    [] name = "Google News" ->
         << [title |-> <<"G","e","m","i","n","i"," ","C","l","a","u","d","e",
             " ","A","I">>, url |-> "https://g1",
             source |-> <<"G","o","o","g","l","e"," ","N","e","w","s">>,
             published_date |-> DateTime(TRUE, 2)],
            [title |-> <<"L","L","M"," ","u","p","d","a","t","e">>,
                 url |-> "https://g2",
             source |-> <<"G","o","o","g","l","e"," ","N","e","w","s">>,
             published_date |-> DateTime(TRUE, 2)] >>
    [] name = "Hacker News" ->
         << [title |-> <<"L","L","M"," ","u","p","d","a","t","e">>,
              url |-> "https://h1",
             source |-> <<"H","a","c","k","e","r"," ","N","e","w","s">>,
             published_date |-> DateTime(TRUE, 1)] >>
    [] name = "Reddit" ->
         << [title |-> <<"O","p","e","n","A","I"," ","S","o","r","a">>,
              url |-> "https://r1",
             source |-> <<"R","e","d","d","i","t"," ","r","/","O","p","e","n",
                 "A","I">>, content_type |-> "video",
             published_date |-> DateTime(TRUE, 1)] >>

\* the adapters attach the keywords they find in the title
with_keywords(story) ==
  [f \in DOMAIN story \cup {"keywords"} |->
     IF f = "keywords" THEN extract_keywords_from_text(Some(story.title))
     ELSE story[f]]

SourceItems(name) ==
  [i \in 1..Len(SourceStories(name)) |->
     with_keywords(SourceStories(name)[i])]

\* how a call of an adapter can end: an exception escapes it, its fetch
\* fails and it returns [], it finds nothing, it finds its items
FetchKinds == {"raised", "failed", "empty", "items"}

Outcome(name, kind) ==
  CASE kind = "raised" -> [kind |-> "raised", error |-> "timeout"]
    [] kind = "failed" -> [kind |-> "failed"]
    [] kind = "empty"  -> [kind |-> "items", items |-> << >>]
    [] kind = "items"  -> [kind |-> "items", items |-> SourceItems(name)]

InitRun ==
  /\ pc = "start"
  /\ parsers \in SUBSET {SOURCES[i] : i \in 1..Len(SOURCES)}
  /\ \E kinds \in [parsers -> FetchKinds] :
       fetch = [name \in parsers |-> Outcome(name, kinds[name])]
  /\ all_news = << >>
  /\ sources_used = << >>
  /\ errors = << >>
  /\ outbox = << >>
  /\ processed_news = None
  /\ DedupIdle
  /\ KeywordIdle
  /\ UtilIdle
  /\ ScoreIdle
  /\ FormatIdle

\* run: validate_config returns, or raises and the error is reported
ValidateConfig ==
  /\ pc = "start"
  /\ \/ /\ pc' = "validated"
        /\ UNCHANGED outbox
     \/ /\ \E ok \in BOOLEAN :
             outbox' = send_message(outbox, error_text("ValueError"), ok)
        /\ pc' = "failed"
  /\ UNCHANGED << dedup_vars, keyword_vars,
                  util_vars, score_vars, processed_news,
                  format_vars, parsers, fetch, all_news, sources_used,
                  errors >>

\* run: collect_news()
CollectNews ==
  /\ pc = "validated"
  /\ LET r == collect_news(parsers, fetch)
     IN  /\ all_news' = r.all_news
         /\ sources_used' = r.sources_used
         /\ errors' = r.errors
  /\ pc' = "collected"
  /\ UNCHANGED << dedup_vars, keyword_vars,
                  util_vars, score_vars, processed_news,
                  format_vars, parsers, fetch, outbox >>

\* run: nothing was collected, the no-news message is sent and run returns
SendNoNews ==
  /\ pc = "collected"
  /\ is_empty(all_news)
  /\ \E ok \in BOOLEAN :
       outbox' = send_message(outbox, NO_NEWS_MESSAGE, ok)
  /\ pc' = "done"
  /\ UNCHANGED << dedup_vars, keyword_vars,
                  util_vars, score_vars, processed_news,
                  format_vars, parsers, fetch, all_news, sources_used,
                  errors >>

\* run: process_news(all_news); an error it raises is reported
RunProcessNews ==
  /\ pc = "collected"
  /\ ~is_empty(all_news)
  /\ LET r == process_news(all_news)
     IN  /\ processed_news' = Some(r)
         /\ IF r.outcome = "raised"
            THEN /\ \E ok \in BOOLEAN :
                      outbox' = send_message(outbox, error_text(r.error), ok)
                 /\ pc' = "failed"
            ELSE /\ UNCHANGED outbox
                 /\ pc' = "processed"
  /\ UNCHANGED << dedup_vars, keyword_vars,
                  util_vars, score_vars, format_vars,
                  parsers, fetch, all_news, sources_used, errors >>

\* run: send_news_digest(processed_news, sources_used, errors)
SendNewsDigest ==
  /\ pc = "processed"
  /\ \E current_date \in CurrentDates, ok_digest, ok_summary \in BOOLEAN :
       outbox' = send_news_digest(outbox, processed_news[1].news,
                                  sources_used, errors, current_date,
                                  ok_digest, ok_summary)
  /\ pc' = "done"
  /\ UNCHANGED << dedup_vars, keyword_vars,
                  util_vars, score_vars, processed_news,
                  format_vars, parsers, fetch, all_news, sources_used,
                  errors >>

NextRun ==
  \/ ValidateConfig
  \/ CollectNews
  \/ SendNoNews
  \/ RunProcessNews
  \/ SendNewsDigest

SpecRun == InitRun /\ [][NextRun]_vars

\* ------------------------------------------------------------------------
\* Specification of the recency check
\* ------------------------------------------------------------------------
\* readings of the clock, in seconds
ClockReadings == {90000, 180000}

RecencyHours == {0, 1, 24}

\* distance in seconds of the timestamp from the cutoff: hours and one
\* second before it, exactly on it, after it, and far in the future
CutoffOffsets == { -86400, -3600, -1, 0, 1, 2, 3600, 31536000 }

InitRecent ==
  /\ now \in ClockReadings
  /\ hours \in RecencyHours
  /\ \/ published_date = None
     \/ \E aware \in BOOLEAN, offset \in CutoffOffsets :
          published_date =
            Some(DateTime(aware, now - timedelta(hours) + offset))
  /\ is_recent = None
  /\ DedupIdle
  /\ KeywordIdle
  /\ ScoreIdle
  /\ PipelineIdle
  /\ LanguageIdle
  /\ SenderIdle
  /\ RepeatIdle

\* is_recent_news(published_date, hours)
IsRecentNews ==
  /\ is_recent = None
  /\ is_recent' = Some(is_recent_news(published_date, hours, now))
  /\ UNCHANGED << dedup_vars, keyword_vars, score_vars, pipeline_vars,
                  published_date, hours, now, language_vars, sender_vars,
                  repeat_vars >>

NextRecent == IsRecentNews

SpecRecent == InitRecent /\ [][NextRecent]_vars

\* ------------------------------------------------------------------------
\* Specification of the language filter
\* ------------------------------------------------------------------------
\* longest text
MaxLanguageLen == 5

\* a Latin letter of each case, a Cyrillic letter, a CJK letter, a digit,
\* a space, a listed punctuation mark and an emoji
LanguageChars == { "a", "B", "U+0436", "U+65E5", "1", " ", "!", "U+1F916" }

LanguageTexts == UNION { [1..n -> LanguageChars] : n \in 0..MaxLanguageLen }

InitLanguage ==
  /\ language_text \in LanguageTexts
  /\ language_ok = None
  /\ DedupIdle
  /\ KeywordIdle
  /\ ScoreIdle
  /\ PipelineIdle
  /\ RecencyIdle
  /\ SenderIdle
  /\ RepeatIdle

\* is_english_or_russian(language_text)
IsEnglishOrRussian ==
  /\ language_ok = None
  /\ language_ok' = Some(is_english_or_russian(language_text))
  /\ UNCHANGED << dedup_vars, keyword_vars, score_vars, pipeline_vars,
                  recency_vars, language_text, sender_vars, repeat_vars >>

NextLanguage == IsEnglishOrRussian

SpecLanguage == InitLanguage /\ [][NextLanguage]_vars

\* ------------------------------------------------------------------------
\* Specification of the sender
\* ------------------------------------------------------------------------
\* most lines of a message
MaxLines == 3

\* lines: short ones, with a space in front or behind, empty, of spaces
\* only, long, and longer than a message may be
MessageLines ==
  { << Piece("a", 1) >>,
    << Piece(" ", 1), Piece("a", 1) >>,
    << Piece("b", 1), Piece(" ", 1) >>,
    << Piece("b", 2) >>,
    << >>,
    << Piece(" ", 2) >>,
    << Piece("a", 1800) >>,
    << Piece("b", 5000) >> }

\* the lines joined with newlines
RECURSIVE join_lines(_)
join_lines(lines) ==
  IF Len(lines) = 1 THEN lines[1]
  ELSE cat(cat(lines[1], NEWLINE), join_lines(Tail(lines)))

Messages ==
  { join_lines(lines) :
      lines \in UNION { [1..n -> MessageLines] : n \in 1..MaxLines } }

SplitLengths == {0, 2, 4, MAX_LENGTH}

InitSend ==
  /\ message \in Messages
  /\ split_length \in SplitLengths
  /\ fail_at \in 0..MaxLines
  /\ parts = None
  /\ delivery = None
  /\ DedupIdle
  /\ KeywordIdle
  /\ ScoreIdle
  /\ PipelineIdle
  /\ RecencyIdle
  /\ LanguageIdle
  /\ RepeatIdle

\* _split_message(message, split_length)
SplitMessage ==
  /\ parts = None
  /\ parts' = Some(split_message(message, split_length))
  /\ UNCHANGED << dedup_vars, keyword_vars, score_vars, pipeline_vars,
                  recency_vars, language_vars, repeat_vars, message,
                  split_length,
                  fail_at, delivery >>

\* send_message(message)
SendMessage ==
  /\ delivery = None
  /\ delivery' = Some(deliver(message, fail_at))
  /\ UNCHANGED << dedup_vars, keyword_vars, score_vars, pipeline_vars,
                  recency_vars, language_vars, repeat_vars, message,
                  split_length,
                  fail_at, parts >>

NextSend == SplitMessage \/ SendMessage

SpecSend == InitSend /\ [][NextSend]_vars

\* ------------------------------------------------------------------------
\* Specification of successive calls of the pipeline on one batch
\* ------------------------------------------------------------------------
\* the items of process_news, and one whose title is in another script
RepeatItems ==
  ProcessItems \cup
    { [title |-> <<"U+65E5","U+672C"," ","U+65E5","U+672C">>,
         url |-> "https://j",
       published_date |-> DateTime(TRUE, 2)] }

RepeatBatches == UNION { [1..n -> RepeatItems] : n \in 0..MaxBatch }

InitRepeat ==
  /\ batch \in RepeatBatches
  /\ original_batch = batch
  /\ outputs = << >>
  /\ calls = 0
  /\ max_items = 0
  /\ formatted_message = None
  /\ news_list = << >>
  /\ unique_news = << >>
  /\ seen_titles = {}
  /\ seen_urls = {}
  /\ kept_idx = << >>
  /\ processed_news = None
  /\ KeywordIdle
  /\ ScoreIdle
  /\ RunIdle
  /\ RecencyIdle
  /\ LanguageIdle
  /\ SenderIdle

\* remove_duplicates(batch), on the list as the earlier calls left it
RemoveDuplicatesAgain ==
  /\ calls < MaxCalls
  /\ calls' = calls + 1
  /\ outputs' = Append(outputs,
                       [op     |-> "remove_duplicates",
                        result |-> remove_duplicates(batch).unique_news])
  /\ UNCHANGED << batch, original_batch, news_list, unique_news, seen_titles,
                  seen_urls, kept_idx, keyword_vars, score_vars,
                  pipeline_vars, recency_vars, language_vars, sender_vars >>

\* process_news(batch), on the list as the earlier calls left it; the
\* filter stage writes the scores into the items of that list
ProcessNewsAgain ==
  /\ calls < MaxCalls
  /\ calls' = calls + 1
  /\ outputs' = Append(outputs,
                       [op     |-> "process_news",
                        result |-> process_news(batch)])
  /\ batch' = list_after_process_news(batch)
  /\ UNCHANGED << original_batch, news_list, unique_news, seen_titles,
                  seen_urls, kept_idx, keyword_vars, score_vars,
                  pipeline_vars, recency_vars, language_vars, sender_vars >>

\* format_news_for_telegram(news_list, max_items=len(news_list)) on the
\* list the latest process_news call returned
FormatProcessed ==
  /\ formatted_message = None
  /\ outputs # << >>
  /\ outputs[Len(outputs)].op = "process_news"
  /\ outputs[Len(outputs)].result.outcome = "returned"
  /\ LET processed == outputs[Len(outputs)].result.news
     IN  /\ max_items' = Len(processed)
         /\ \E current_date \in CurrentDates :
              formatted_message' =
                Some(format_news_for_telegram(processed, Len(processed),
                                              current_date))
  /\ UNCHANGED << dedup_vars, original_batch, outputs, keyword_vars,
                  score_vars, processed_news, run_vars, recency_vars,
                  language_vars, sender_vars >>

NextRepeat ==
  \/ RemoveDuplicatesAgain
  \/ ProcessNewsAgain
  \/ FormatProcessed

SpecRepeat == InitRepeat /\ [][NextRepeat]_vars

\* ------------------------------------------------------------------------
\* Properties of the deduplicator
\* ------------------------------------------------------------------------
Range(s) == {s[i] : i \in 1..Len(s)}

\* the dedup keys of the item at position i of the last call's input
NormTitle(i) == strip(lower(get(news_list[i], "title", << >>)))
Url(i) == get(news_list[i], "url", "")

Positions == 1..Len(news_list)
Kept == Range(kept_idx)

\* C1: applying remove_duplicates to its own output returns that output
\* unchanged: dedupe(dedupe(x)) = dedupe(x).
C1_Idempotent == calls >= 2 => unique_news = news_list

C1_Witness ==
  /\ calls = 2
  /\ Len(unique_news) >= 2
  /\ Len(batch) > Len(unique_news)

\* C2: an item is kept iff neither its normalized title nor its URL is that
\* of an earlier kept item; the output is the input restricted to the kept
\* positions, in order, and the seen sets hold the keys of the kept items
\* only.
C2_KeepRule ==
  calls >= 1 =>
    \E K \in SUBSET Positions :
      /\ \A i \in Positions :
           i \in K <=> \A j \in K : j < i =>
                          (NormTitle(j) # NormTitle(i) /\ Url(j) # Url(i))
      /\ Len(kept_idx) = Cardinality(K)
      /\ Kept = K
      /\ \A a, b \in 1..Len(kept_idx) : a < b => kept_idx[a] < kept_idx[b]
      /\ unique_news = [k \in 1..Len(kept_idx) |-> news_list[kept_idx[k]]]
      /\ seen_titles = {NormTitle(i) : i \in K}
      /\ seen_urls = {Url(i) : i \in K}

\* a dropped item's URL is the URL of a later kept item
C2_Witness ==
  /\ calls = 1
  /\ \E i, j \in Positions :
       /\ i < j
       /\ i \notin Kept
       /\ j \in Kept
       /\ Url(i) = Url(j)

\* C3 as stated: of two items sharing a normalized title or a URL, the
\* later one never appears in the output.
C3_LaterNeverSurvives ==
  calls >= 1 =>
    \A i, j \in Positions :
      (i < j /\ (NormTitle(i) = NormTitle(j) \/ Url(i) = Url(j)))
        => j \notin Kept

\* C3 amended: of two items sharing a normalized title or a URL, the later
\* one is dropped whenever the earlier one was kept.
C3_LaterDroppedIfFirstKept ==
  calls >= 1 =>
    \A i, j \in Positions :
      (i < j /\ i \in Kept /\ (NormTitle(i) = NormTitle(j) \/ Url(i) = Url(j)))
        => j \notin Kept

\* titles differing in case and surrounding blanks only, different URLs
C3_Witness ==
  /\ calls = 1
  /\ \E i, j \in Positions :
       /\ i < j
       /\ i \in Kept
       /\ j \notin Kept
       /\ get(news_list[i], "title", << >>) # get(news_list[j], "title", << >>)
       /\ NormTitle(i) = NormTitle(j)
       /\ Url(i) # Url(j)

\* C4: no two output items share a normalized title, and no two share a URL.
C4_OutputUnique ==
  calls >= 1 =>
    \A a, b \in 1..Len(unique_news) :
      a < b =>
        /\ strip(lower(get(unique_news[a], "title", << >>)))
             # strip(lower(get(unique_news[b], "title", << >>)))
        /\ get(unique_news[a], "url", "") # get(unique_news[b], "url", "")

C4_Witness ==
  /\ calls = 1
  /\ Len(unique_news) >= 2
  /\ Len(unique_news) < Len(news_list)

\* C5: once an item with an empty or missing URL is kept, every later item
\* with an empty or missing URL is dropped, whatever its title.
C5_EmptyUrlIsKey ==
  calls >= 1 =>
    \A i, j \in Positions :
      (i < j /\ i \in Kept /\ Url(i) = "" /\ Url(j) = "") => j \notin Kept

\* the later item is dropped although its title is no kept title
C5_Witness ==
  /\ calls = 1
  /\ \E i, j \in Positions :
       /\ i < j
       /\ i \in Kept
       /\ Url(i) = ""
       /\ "url" \notin DOMAIN news_list[j]
       /\ j \notin Kept
       /\ NormTitle(j) \notin seen_titles

\* ------------------------------------------------------------------------
\* Properties of the keyword matcher and of the scorer
\* ------------------------------------------------------------------------
\* kw occurs in t at some offset, letters compared without regard to case
Occurs(kw, t) ==
  LET tl == [i \in 1..Len(t) |-> LowerChar(t[i])]
      kl == [j \in 1..Len(kw) |-> LowerChar(kw[j])]
  IN  \E i \in 0..(Len(t) - Len(kw)) : \A j \in 1..Len(kw) : tl[i + j] = kl[j]

\* number of keywords of a tier that occur in t
Hits(tier, t) == Cardinality({k \in 1..Len(tier) : Occurs(tier[k], t)})

\* the text the scorer is said to search
Joined(t, d) == t \o << " " >> \o d

\* the sum the score is said to be, before the cap
ClaimedSum(t, d, k) ==
  20 * Hits(high_priority, Joined(t, d))
    + 10 * Hits(medium_priority, Joined(t, d))
    + 5 * Hits(low_priority, Joined(t, d))
    + Min(5 * (IF k = None THEN 0 ELSE Len(k[1])), 20)

\* C6: for a non-empty title the score is min(100, 20*H + 10*M + 5*L +
\* min(5*len(keywords), 20)), H, M and L counting the high-, medium- and
\* low-priority keywords that occur in the lower-cased text
\* "title description".
C6_ScoreFormula ==
  (score # None /\ truthy(title)) =>
    score[1] = Min(100, ClaimedSum(title[1], description, keywords))

\* title "ChatGPT gets new feature", no description, keywords [ChatGPT]: 25
C6_Witness ==
  /\ before = None
  /\ title = Some(<< "C","h","a","t","G","P","T"," ","g","e","t","s"," ",
                     "n","e","w"," ","f","e","a","t","u","r","e" >>)
  /\ description = << >>
  /\ keywords = Some(<< << "C","h","a","t","G","P","T" >> >>)
  /\ score = Some(25)

\* C7: every score the scorer returns is an integer from 0 to 100, and so
\* is every relevance_score the filter stage stores on an item.
C7_ScoreBounds ==
  /\ score # None => score[1] \in 0..100
  /\ filtered_news # None =>
       \A i \in 1..Len(filtered_news[1]) :
         filtered_news[1][i].relevance_score \in 0..100

\* the tier weights and the bonus add up to more than 100
C7_Witness ==
  /\ truthy(title)
  /\ ClaimedSum(title[1], description, keywords) > 100
  /\ score = Some(100)
  /\ filtered_news # None
  /\ Len(filtered_news[1]) = 1
  /\ filtered_news[1][1].relevance_score = 100

\* C8 as stated: with a non-empty title, the score after an occurrence of
\* a high-priority keyword was added to the title or the description is
\* never lower than the score before.
C8_AddNeverLowers ==
  (score # None /\ before # None /\ before[1].title # << >>) =>
    score[1] >= before[1].score

\* every tier keyword found before the addition is still found after it
MatchesKept ==
  \A tier \in {high_priority, medium_priority, low_priority} :
    \A k \in 1..Len(tier) :
      Occurs(tier[k], Joined(before[1].title, before[1].description))
        => Occurs(tier[k], Joined(title[1], description))

\* C8 amended: with a non-empty title, adding an occurrence of a
\* high-priority keyword that destroys no existing keyword match never
\* lowers the score.
C8_AddKeepingMatchesNeverLowers ==
  (score # None /\ before # None /\ before[1].title # << >> /\ MatchesKept)
    => score[1] >= before[1].score

C8_Witness ==
  /\ score # None
  /\ before # None
  /\ before[1].title # << >>
  /\ MatchesKept
  /\ score[1] > before[1].score

\* C9: contains_ai_keywords is true iff some inclusion keyword and no
\* exclusion keyword occurs in the text, case-insensitively; it is false
\* for an absent or empty text.
C9_ContainsRule ==
  has_keywords # None =>
    has_keywords[1] =
      ( /\ text # None
        /\ \E k \in 1..Len(AI_KEYWORDS) : Occurs(AI_KEYWORDS[k], text[1])
        /\ ~ \E x \in 1..Len(EXCLUDE_KEYWORDS) :
               Occurs(EXCLUDE_KEYWORDS[x], text[1]) )

\* "OpenAI research paper on gradient descent" is vetoed
C9_Witness ==
  /\ has_keywords = Some(FALSE)
  /\ text = Some(<< "O","p","e","n","A","I"," ","r","e","s","e","a","r","c",
                    "h"," ","p","a","p","e","r"," ","o","n"," ","g","r","a",
                    "d","i","e","n","t"," ","d","e","s","c","e","n","t" >>)

\* C10: extract_keywords_from_text returns the inclusion keywords that
\* occur in the text, case-insensitively, in the order of the configured
\* list, each keyword once; an absent or empty text gives the empty list.
C10_ExtractEachOnce ==
  found_keywords # None =>
    LET found == found_keywords[1]
        t     == IF text = None THEN << >> ELSE text[1]
    IN  /\ \A k \in 1..Len(AI_KEYWORDS) :
             Occurs(AI_KEYWORDS[k], t)
               <=> \E a \in 1..Len(found) : found[a] = AI_KEYWORDS[k]
        /\ \A a, b \in 1..Len(found) :
             a < b => \E p, q \in 1..Len(AI_KEYWORDS) :
                        /\ p < q
                        /\ AI_KEYWORDS[p] = found[a]
                        /\ AI_KEYWORDS[q] = found[b]
        /\ \A a, b \in 1..Len(found) : a # b => found[a] # found[b]
        /\ t = << >> => found = << >>

\* ------------------------------------------------------------------------
\* Properties of the filter stage
\* ------------------------------------------------------------------------
\* the item passes the language filter and reaches the minimum score
ScoreOfItem(x) ==
  calculate_relevance_score(Some(get(x, "title", << >>)),
                            get(x, "description", << >>),
                            Some(get(x, "keywords", << >>)))

PassesFilter(x) ==
  /\ is_english_or_russian(get(x, "title", << >>))
  /\ ScoreOfItem(x) >= min_score

\* the item with its score stored on it
Scored(x) ==
  [f \in DOMAIN x \cup {"relevance_score"} |->
     IF f = "relevance_score" THEN ScoreOfItem(x) ELSE x[f]]

\* number of positions of the sequence s that hold x
Copies(s, x) == Cardinality({i \in 1..Len(s) : s[i] = x})

\* C11: the output holds exactly the input items whose title passes the
\* language filter and whose score is at least min_score, each carrying
\* the scorer's value as relevance_score; every other item is dropped.
C11_FilterExact ==
  filtered_news # None =>
    LET out == filtered_news[1]
    IN  /\ \A i \in 1..Len(batch) :
             Copies(out, Scored(batch[i]))
               = IF PassesFilter(batch[i]) THEN Copies(batch, batch[i]) ELSE 0
        /\ \A j \in 1..Len(out) :
             \E i \in 1..Len(batch) : out[j] = Scored(batch[i])

\* an item that fails the language filter is dropped although it scores
\* enough, next to one kept and one dropped for its score
C11_Witness ==
  /\ filtered_news # None
  /\ Len(filtered_news[1]) >= 1
  /\ \E i \in 1..Len(batch) :
       /\ ~is_english_or_russian(get(batch[i], "title", << >>))
       /\ get(batch[i], "title", << >>) # << >>
       /\ ScoreOfItem(batch[i]) >= min_score
       /\ ScoreOfItem(batch[i]) > 0
  /\ \E i \in 1..Len(batch) :
       /\ is_english_or_russian(get(batch[i], "title", << >>))
       /\ ScoreOfItem(batch[i]) < min_score

\* C12: the output is in descending relevance_score order, and items of
\* equal score are in their input order.
C12_SortedStable ==
  filtered_news # None =>
    LET out        == filtered_news[1]
        passing    == SelectSeq(batch, PassesFilter)
        candidates == [j \in 1..Len(passing) |-> Scored(passing[j])]
    IN  /\ \A a, b \in 1..Len(out) :
             a < b => out[a].relevance_score >= out[b].relevance_score
        /\ \A j \in 1..Len(out) :
             LET SameScore(x) == x.relevance_score = out[j].relevance_score
             IN  SelectSeq(out, SameScore) = SelectSeq(candidates, SameScore)

\* two different items tie, and a higher-scoring item comes later in the
\* input
C12_Witness ==
  /\ filtered_news # None
  /\ Len(filtered_news[1]) = 3
  /\ filtered_news[1][1].relevance_score = filtered_news[1][2].relevance_score
  /\ filtered_news[1][1] # filtered_news[1][2]
  /\ filtered_news[1][2].relevance_score > filtered_news[1][3].relevance_score
  /\ filtered_news[1][3] = Scored(batch[1])

\* the item has no usable title: the key is missing or the title is empty
LacksTitle(x) == get(x, "title", << >>) = << >>

\* C13: an item whose title is missing or empty scores 0 and never appears
\* in the output of filter_news_by_relevance, whatever min_score is.
C13_UntitledExcluded ==
  filtered_news # None =>
    /\ \A i \in 1..Len(batch) :
         LacksTitle(batch[i]) =>
           /\ ScoreOfItem(batch[i]) = 0
           /\ calculate_relevance_score(None,
                get(batch[i], "description", << >>),
                Some(get(batch[i], "keywords", << >>))) = 0
    /\ \A j \in 1..Len(filtered_news[1]) : ~LacksTitle(filtered_news[1][j])

\* a batch with an item of empty title and one without the title key, both
\* with a description full of keywords, is filtered with a negative
\* minimum and another item is kept
C13_Witness ==
  /\ filtered_news # None
  /\ min_score < 0
  /\ Len(filtered_news[1]) = 1
  /\ \E i \in 1..Len(batch) :
       "title" \notin DOMAIN batch[i] /\ batch[i].description # << >>
  /\ \E i \in 1..Len(batch) :
       "title" \in DOMAIN batch[i] /\ batch[i].title = << >>

\* ------------------------------------------------------------------------
\* Properties of process_news
\* ------------------------------------------------------------------------
\* the list after deduplication and ranking with the minimum score of 10
Ranked == filter_news_by_relevance(remove_duplicates(batch).unique_news, 10)

HasDate(x) == "published_date" \in DOMAIN x

\* C14: process_news dedupes, then filters and ranks, then sorts stably by
\* published_date descending: the list it returns is in descending date
\* order, and its items of equal date are the ranked items of that date in
\* ranking order, that is in descending relevance_score order.
C14_DateThenScore ==
  (processed_news # None /\ processed_news[1].outcome = "returned") =>
    LET out == processed_news[1].news
    IN  /\ \A a, b \in 1..Len(out) :
             a < b =>
               /\ date_key(out[a]).t >= date_key(out[b]).t
               /\ date_key(out[a]).t = date_key(out[b]).t =>
                    out[a].relevance_score >= out[b].relevance_score
        /\ Len(out) = Len(Ranked)
        /\ \A j \in 1..Len(out) :
             LET SameDate(x) == date_key(x) = date_key(out[j])
             IN  SelectSeq(out, SameDate) = SelectSeq(Ranked, SameDate)

\* two items of one date are returned in score order although the batch
\* had them the other way round, ahead of an older item that scores more
C14_Witness ==
  /\ processed_news # None
  /\ processed_news[1].outcome = "returned"
  /\ LET out == processed_news[1].news
     IN  /\ Len(out) = 3
         /\ Len(batch) = 3
         /\ date_key(out[1]) = date_key(out[2])
         /\ out[1].relevance_score > out[2].relevance_score
         /\ date_key(out[3]).t < date_key(out[2]).t
         /\ out[3].relevance_score > out[2].relevance_score
         /\ batch[1].url = out[2].url
         /\ batch[3].url = out[1].url

\* C15: on a batch mixing dated and undated items process_news completes
\* without raising and places the undated items after all dated ones.
C15_MissingDateGraceful ==
  ( /\ processed_news # None
    /\ \E i \in 1..Len(batch) : HasDate(batch[i])
    /\ \E i \in 1..Len(batch) : ~HasDate(batch[i]) ) =>
    /\ processed_news[1].outcome = "returned"
    /\ \A a, b \in 1..Len(processed_news[1].news) :
         ( /\ ~HasDate(processed_news[1].news[a])
           /\ HasDate(processed_news[1].news[b]) ) => b < a

\* ------------------------------------------------------------------------
\* Properties of a run
\* ------------------------------------------------------------------------
\* what a registered adapter that did not raise hands over
ItemsOf(name) ==
  IF name \in parsers /\ fetch[name].kind = "items"
  THEN fetch[name].items ELSE << >>

\* the items of the adapters that did not raise, in the fixed order
Collected ==
  ItemsOf("YouTube") \o ItemsOf("Twitter") \o ItemsOf("Google News")
    \o ItemsOf("Hacker News") \o ItemsOf("Reddit")

Raised(name) == name \in parsers /\ fetch[name].kind = "raised"

\* C16: whichever adapters raise during collect_news, the items of the
\* other registered adapters are collected in the order YouTube, Twitter,
\* Google News, Hacker News, Reddit, and run goes on to process them and
\* to hand the digest of the processed items to the sender; the run never
\* ends in its error handler on account of an adapter.
C16_RaisingAdaptersSkipped ==
  /\ pc \in {"collected", "processed", "done"} => all_news = Collected
  /\ pc = "failed" =>
       /\ outbox[1].message = error_text("ValueError")
       /\ sources_used = << >> /\ errors = << >>
  /\ (pc = "done" /\ Collected # << >>) =>
       /\ processed_news = Some(process_news(Collected))
       /\ processed_news[1].outcome = "returned"
       /\ LET news == processed_news[1].news
              sent == outbox[1].message
          IN  IF news = << >> THEN sent = NO_NEWS_MESSAGE
              ELSE /\ sent.kind = "digest"
                   /\ Len(sent.news_items) = Len(news)
                   /\ \A i \in 1..Len(news) :
                        /\ sent.news_items[i].url = news[i].url
                        /\ sent.news_items[i].title = news[i].title

\* Twitter raised between YouTube and Google News, which both delivered,
\* and the digest with their items was sent
C16_Witness ==
  /\ pc = "done"
  /\ Raised("Twitter")
  /\ ItemsOf("YouTube") # << >>
  /\ ItemsOf("Google News") # << >>
  /\ Len(errors) >= 1
  /\ Len(outbox) = 2
  /\ outbox[1].message.kind = "digest"
  /\ Len(outbox[1].message.news_items) >= 2

\* C17: whenever the fetch of a registered adapter fails, collect_news
\* returns an error entry naming the source and does not list the source
\* in sources_used.
C17_FetchFailureReported ==
  pc \in {"collected", "processed", "done"} =>
    \A name \in parsers :
      fetch[name].kind \in {"raised", "failed"} =>
        /\ \E i \in 1..Len(errors) : errors[i].source = name
        /\ \A i \in 1..Len(sources_used) : sources_used[i] # name

\* C18: when the collected batch is empty, or the processed list is, run
\* hands exactly one message to the sender, the fixed no-news message, and
\* no error message.
C18_EmptyIsNotAnError ==
  ( /\ pc = "done"
    /\ \/ all_news = << >>
       \/ processed_news # None /\ processed_news[1].news = << >> ) =>
    /\ Len(outbox) = 1
    /\ outbox[1].message = NO_NEWS_MESSAGE

\* items were collected while another source raised, none of them was
\* relevant, and the run ended with the single no-news message
C18_Witness ==
  /\ pc = "done"
  /\ all_news # << >>
  /\ errors # << >>
  /\ processed_news # None
  /\ processed_news[1].news = << >>
  /\ Len(outbox) = 1
  /\ outbox[1].message = NO_NEWS_MESSAGE

\* C30: a run that ended with a non-empty processed list sent the digest
\* and then, last, the summary of that list, of the sources used and of
\* the errors, whether or not the digest send succeeded; a run that ended
\* with an empty collected or processed list sent the no-news message alone,
\* so no summary and none of the collected errors
C30_SummaryAfterDigestOnly ==
  pc = "done" =>
    IF processed_news # None /\ processed_news[1].news # << >>
    THEN /\ Len(outbox) = 2
         /\ outbox[1].message.kind = "digest"
         /\ outbox[2].message =
              summary_text(Len(processed_news[1].news), sources_used, errors)
    ELSE /\ Len(outbox) = 1
         /\ outbox[1].message = NO_NEWS_MESSAGE

\* the digest send failed and the summary, which lists a source error, was
\* sent after it
C30_Witness ==
  /\ pc = "done"
  /\ Len(outbox) = 2
  /\ outbox[1].message.kind = "digest"
  /\ ~outbox[1].ok
  /\ outbox[2].message.kind = "summary"
  /\ outbox[2].message.errors_count > 0

\* ------------------------------------------------------------------------
\* Properties of the digest formatter
\* ------------------------------------------------------------------------
\* number of items left by the truncation to max_items
Shown == Min(Len(batch), max_items)

\* C19: format_news_for_telegram returns the fixed no-news message
\* whenever the list is empty or the truncation to max_items leaves no
\* item.
C19_NoNewsWhenNothingShown ==
  (formatted_message # None /\ Shown = 0) =>
    formatted_message[1] = NO_NEWS_MESSAGE

\* C20: for a non-empty batch the digest has one block per item for the
\* first max_items items, in input order, and none for a later item: it
\* has min(len(items), max_items) blocks, the i-th made from the i-th item.
C20_FirstItemsInOrder ==
  (formatted_message # None /\ batch # << >>) =>
    /\ formatted_message[1].kind = "digest"
    /\ Len(formatted_message[1].news_items) = Shown
    /\ \A i \in 1..Shown :
         /\ formatted_message[1].news_items[i] = news_item(batch[i])
         /\ formatted_message[1].news_items[i].url
              = get(batch[i], "url", NO_URL)
         /\ formatted_message[1].news_items[i].title
              = get(batch[i], "title", NO_TITLE)

\* three different items are formatted with max_items = 2: two blocks, and
\* the third item has none
C20_Witness ==
  /\ formatted_message # None
  /\ Len(batch) = 3
  /\ max_items = 2
  /\ Len(formatted_message[1].news_items) = 2
  /\ batch[3] # batch[1]
  /\ batch[3] # batch[2]
  /\ batch[1] # batch[2]
  /\ \A i \in 1..2 :
       formatted_message[1].news_items[i] # news_item(batch[3])

\* the item the i-th block of the digest was made of
ShownItem(i) == batch[i]

\* C28: the block of an item carries a duration suffix exactly when its
\* source contains YouTube and its duration is above 0; the suffix shows
\* minutes and seconds with minutes * 60 + seconds = duration and
\* 0 <= seconds < 60 when the duration reaches a minute, and the seconds
\* alone otherwise
C28_DurationSuffix ==
  (formatted_message # None /\ formatted_message[1].kind = "digest") =>
    \A i \in 1..Len(formatted_message[1].news_items) :
      LET suffix   == formatted_message[1].news_items[i].duration_info
          source   == get(ShownItem(i), "source", UNKNOWN_SOURCE)
          duration == get(ShownItem(i), "duration", 0)
          youtube  == \E k \in 0..(Len(source) - 7) :
                        SubSeq(source, k + 1, k + 7) =
                          <<"Y","o","u","T","u","b","e">>
      IN  /\ suffix # << >> <=> (youtube /\ duration > 0)
          /\ Len(suffix) \in 0..2
          /\ Len(suffix) = 2 =>
               /\ suffix[1] > 0
               /\ suffix[1] * 60 + suffix[2] = duration
               /\ suffix[2] \in 0..59
          /\ Len(suffix) = 1 =>
               /\ duration < 60
               /\ suffix[1] = duration

\* a digest with a video of a whole minute, one of more than an hour and
\* an item of another source that carries a duration
C28_Witness ==
  /\ formatted_message # None
  /\ formatted_message[1].kind = "digest"
  /\ Len(formatted_message[1].news_items) = 3
  /\ formatted_message[1].news_items[1].duration_info = << 1, 0 >>
  /\ formatted_message[1].news_items[2].duration_info = << 62, 5 >>
  /\ formatted_message[1].news_items[3].duration_info = << >>
  /\ get(batch[3], "duration", 0) = 60

\* ------------------------------------------------------------------------
\* Properties of the recency check
\* ------------------------------------------------------------------------
\* C21: is_recent_news is false for an absent timestamp; otherwise it is
\* true iff the timestamp, read as UTC when it has no zone, is not before
\* now - hours: exactly at the cutoff it is recent, one second earlier it
\* is not, and any later timestamp is recent however far in the future.
C21_RecentIffNotBeforeCutoff ==
  is_recent # None =>
    /\ published_date = None => is_recent[1] = FALSE
    /\ published_date # None =>
         /\ is_recent[1] = (published_date[1].t >= now - hours * 3600)
         /\ published_date[1].t = now - hours * 3600 => is_recent[1] = TRUE
         /\ published_date[1].t = now - hours * 3600 - 1
              => is_recent[1] = FALSE
         /\ published_date[1].t > now => is_recent[1] = TRUE

\* a timestamp without zone exactly 24 hours old was found recent
C21_Witness ==
  /\ is_recent = Some(TRUE)
  /\ hours = 24
  /\ published_date # None
  /\ ~published_date[1].aware
  /\ published_date[1].t = now - 86400

\* ------------------------------------------------------------------------
\* Properties of the language filter
\* ------------------------------------------------------------------------
LatinLetters == Range(UpperLetters) \cup Range(LowerLetters)

CyrillicLetters == Range(CyrillicUpper) \cup Range(CyrillicLower)

\* number of characters of language_text that lie in the set
CountIn(set) ==
  Cardinality({i \in 1..Len(language_text) : language_text[i] \in set})

HasUnwanted == \E i \in 1..Len(language_text) : IsUnwanted(language_text[i])

\* C22: is_english_or_russian accepts iff the text has no unwanted
\* character, has at least 3 Latin and Cyrillic letters together, and the
\* Cyrillic or the Latin share of those letters is strictly above 0.8.
C22_AcceptRule ==
  language_ok # None =>
    LET latin    == CountIn(LatinLetters)
        cyrillic == CountIn(CyrillicLetters)
        letters  == latin + cyrillic
    IN  language_ok[1] =
          ( /\ ~HasUnwanted
            /\ letters >= 3
            /\ \/ 5 * cyrillic > 4 * letters
               \/ 5 * latin > 4 * letters )

\* four Latin letters and one Cyrillic letter, a share of exactly 80%,
\* were rejected
C22_Witness ==
  /\ language_ok = Some(FALSE)
  /\ Len(language_text) = 5
  /\ CountIn(LatinLetters) = 4
  /\ CountIn(CyrillicLetters) = 1

\* C23: is_english_or_russian rejects every text that contains a letter
\* of a script other than Latin or Cyrillic, such a letter being counted
\* as an unwanted character.
C23_OtherScriptsRejected ==
  language_ok # None =>
    /\ CountIn(OtherLetters) > 0 => language_ok[1] = FALSE
    /\ \A i \in 1..Len(language_text) :
         language_text[i] \in OtherLetters => IsUnwanted(language_text[i])

\* ------------------------------------------------------------------------
\* Properties of the sender
\* ------------------------------------------------------------------------
\* the texts send_message has to hand over: the message, or its parts
PartsToSend ==
  IF text_len(message) <= 3800 THEN << message >>
  ELSE split_message(message, 3800)

\* C24: send_message returns true iff every part of the message was
\* handed to the transport without error; once a call fails it returns
\* false and attempts no later part.
C24_SuccessIffAllPartsSent ==
  delivery # None =>
    LET log == delivery[1].log
    IN  /\ delivery[1].result =
             ( /\ Len(log) = Len(PartsToSend)
               /\ \A i \in 1..Len(log) : log[i].ok )
        /\ \A i \in 1..Len(log) :
             ~log[i].ok => (i = Len(log) /\ ~delivery[1].result)
        /\ Len(log) <= Len(PartsToSend)

\* the second of three parts failed: two calls were made and the result
\* is false
C24_Witness ==
  /\ delivery # None
  /\ Len(PartsToSend) = 3
  /\ fail_at = 2
  /\ Len(delivery[1].log) = 2
  /\ delivery[1].log[1].ok
  /\ ~delivery[1].log[2].ok
  /\ delivery[1].result = FALSE

\* C25: for a message longer than 3800 characters the parts are
\* transmitted in their original order and every transmitted part, with
\* its continuation labels, has at most 4096 characters.
C25_PartsWithinLimit ==
  (delivery # None /\ text_len(message) > 3800) =>
    \A i \in 1..Len(delivery[1].log) :
      /\ delivery[1].log[i].text
           = labelled(PartsToSend[i], i - 1, Len(PartsToSend))
      /\ text_len(delivery[1].log[i].text) <= 4096

\* the lines of all parts, in order
RECURSIVE LinesOfParts(_)
LinesOfParts(ps) ==
  IF ps = << >> THEN << >>
  ELSE split_lines(ps[1], << >>, << >>) \o LinesOfParts(Tail(ps))

NonBlank(line) == text_strip(line) # << >>

Stripped(lines) == [i \in 1..Len(lines) |-> text_strip(lines[i])]

\* C29: every non-blank line of the message is in exactly one part, and
\* the parts read in order give the non-blank lines in their order.
C29_LinesKept ==
  parts # None =>
    SelectSeq(LinesOfParts(parts[1]), NonBlank)
      = SelectSeq(split_lines(message, << >>, << >>), NonBlank)

\* C29, amended: the same up to the whitespace at the ends of a line,
\* which strip() removes from the first and the last line of a part.
C29_LinesKeptUpToStrip ==
  parts # None =>
    Stripped(SelectSeq(LinesOfParts(parts[1]), NonBlank))
      = Stripped(SelectSeq(split_lines(message, << >>, << >>), NonBlank))

\* a message of three non-blank lines, the second indented, was split
\* into three parts
C29_Witness ==
  /\ parts # None
  /\ Len(parts[1]) = 3
  /\ LET lines == split_lines(message, << >>, << >>)
     IN  /\ Len(lines) = 3
         /\ \A i \in 1..3 : NonBlank(lines[i])
         /\ lines[2][1].c = " "

\* ------------------------------------------------------------------------
\* Properties of successive calls on one batch
\* ------------------------------------------------------------------------
\* C26: the pipeline holds no state between invocations: a call of
\* remove_duplicates or of process_news that follows a call of the same
\* operation on the same batch gives the same output, and every process_news
\* call gives what a first call on that batch gives, so an item delivered by
\* one call is not suppressed as a duplicate by the next
C26_SameOutputEveryCall ==
  /\ \A i \in 1..(Len(outputs) - 1) :
       outputs[i].op = outputs[i + 1].op =>
         outputs[i].result = outputs[i + 1].result
  /\ \A i \in 1..Len(outputs) :
       outputs[i].op = "process_news" =>
         outputs[i].result = process_news(original_batch)

\* two process_news calls were made, the first one returned items and
\* left their scores in the batch
C26_Witness ==
  /\ Len(outputs) = 2
  /\ outputs[1].op = "process_news"
  /\ outputs[2].op = "process_news"
  /\ outputs[1].result.outcome = "returned"
  /\ outputs[2].result.news # << >>
  /\ batch # original_batch
  /\ Len(remove_duplicates(original_batch).unique_news) < Len(batch)

\* the items the scorer stage keeps of the batch
KeptByScorer ==
  LET relevant ==
        filter_news_by_relevance(remove_duplicates(original_batch).unique_news,
                                 PROCESS_MIN_SCORE)
  IN  {relevant[k] : k \in 1..Len(relevant)}

\* item `after` is item `item` with relevance_score added and nothing else
\* changed
OnlyScoreAdded(item, after) ==
  /\ DOMAIN after = DOMAIN item \cup {"relevance_score"}
  /\ \A f \in DOMAIN item : after[f] = item[f]

\* C27: across the deduplication, the filter and ranking, the date sort and
\* the formatting, an item of the batch is either as it was, or it is one
\* the scorer stage kept and differs only by the added relevance_score; the
\* items a call returns are items of the batch
C27_OnlyScoreAddedToKept ==
  /\ Len(batch) = Len(original_batch)
  /\ \A p \in 1..Len(batch) :
       \/ batch[p] = original_batch[p]
       \/ /\ OnlyScoreAdded(original_batch[p], batch[p])
          /\ batch[p] \in KeptByScorer
  /\ \A i \in 1..Len(outputs) :
       outputs[i].op = "process_news" =>
         \A k \in 1..Len(outputs[i].result.news) :
           \E p \in 1..Len(batch) : outputs[i].result.news[k] = batch[p]

\* the processed list was formatted; the batch holds a scored item, an item
\* the filter dropped and a duplicate of the scored item
C27_Witness ==
  /\ formatted_message # None
  /\ \E p, q, r \in 1..Len(batch) :
       /\ batch[p] # original_batch[p]
       /\ q # r
       /\ batch[q] = original_batch[q]
       /\ batch[r] = original_batch[r]
       /\ original_batch[q] = original_batch[p]
       /\ original_batch[r].title # original_batch[p].title

====
